---- MODULE Spec2Model ----
(***************************************************************************)
(* Audio segmentation and count normalisation of ci_mp4_generator.         *)
(*                                                                         *)
(*   src/src/index.ts      normalizeRangesToCount, generateContent         *)
(*   src/unnamed/part_002  splitAudioBySilence, sliceAudioBuffer,          *)
(*                         encodeAudioBufferToPCMBase64, decodeAudioData,  *)
(*                         adjustAudioSpeed (utils/audioUtils)             *)
(*   src/src/index.ts      main: AUDIO_SPEED                               *)
(*   src/unnamed/part_004  createVideos, processLanguage                   *)
(*                                                                         *)
(* Range objects live in a heap, because normalizeRangesToCount copies the *)
(* caller's array shallowly ([...inputRanges]) and then assigns to the     *)
(* endSample field of the objects the two arrays share.  An array is a     *)
(* sequence of heap addresses.                                             *)
(*                                                                         *)
(* A sample is the integer k of the float k/32768 that decodeAudioData     *)
(* produces from an int16 k.  Array indices are 0-based in the source and  *)
(* 1-based in the sequences here; the scan index i keeps the source's      *)
(* 0-based value.                                                          *)
(***************************************************************************)
EXTENDS Integers, Sequences, FiniteSets, TLC

VARIABLES
    pc,           \* position in normalizeRangesToCount / generateContent
    heap,         \* address -> range object {startSample, endSample}
    inputRanges,  \* the caller's array (addresses)
    out,          \* the local array `out` (addresses)
    i,            \* scan index of the tiny-range loop (0-based)
    count,        \* argument `count`
    sampleRate,   \* argument `sampleRate`
    entry,        \* the values of inputRanges when the current call was entered
    results,      \* the lists returned so far, as seen by the caller at return
    data,         \* audioBuffer.getChannelData(0)
    options,      \* the options passed to splitAudioBySilence
    boundaries,   \* the local array `boundaries` of splitAudioBySilence
    clips,        \* audioClipsBase64, each clip as its PCM bytes
    framesRms,    \* the local array `framesRms`: each frame's start and sum
    frameStart,   \* the loop variable `start` of the frame loop
    trip,         \* a value and what decodeAudioData / encode made of it in turn
    sliceArgs,    \* the arguments startSample, endSample of sliceAudioBuffer
    sliced,       \* the buffers returned by sliceAudioBuffer
    env,          \* process.env: AUDIO_SPEED and PAUSE_GAP_DURATION
    audioSpeed,   \* main's local audioSpeed
    generateSpanish,  \* main's local generateSpanish
    speedCalls,   \* the calls of adjustAudioSpeed: speed and outcome
    pauseGapDuration, \* createVideos' local pauseGapDuration
    audioFiles,   \* the numbers n of the files audio_n.wav in contentDir
    imageFiles,   \* the numbers n of the files image_n.png in contentDir
    segmentsCreated,  \* processLanguage's local segmentsCreated
    concatLines,  \* processLanguage's local concatLines
    ffmpegLog     \* the FFmpeg commands run so far and whether each succeeded

audioVars == <<data, options, boundaries, clips, framesRms, frameStart>>

codecVars == <<trip, sliceArgs, sliced>>

mainVars == <<env, audioSpeed, generateSpanish, speedCalls>>

videoVars == <<pauseGapDuration, audioFiles, imageFiles, segmentsCreated,
               concatLines, ffmpegLog>>

vars == <<pc, heap, inputRanges, out, i, count, sampleRate, entry, results,
          audioVars, codecVars, mainVars, videoVars>>

\* an environment variable: unset, or set to a text (a sequence of characters)
Unset == [set |-> FALSE, text |-> <<>>]

\* the codec, main and the video builder before they are used
NoCodec ==
    /\ trip = <<>>
    /\ sliceArgs = [startSample |-> 0, endSample |-> 0]
    /\ sliced = <<>>

NoMain ==
    /\ env = [AUDIO_SPEED |-> Unset, PAUSE_GAP_DURATION |-> Unset]
    /\ audioSpeed = 1000
    /\ generateSpanish = FALSE
    /\ speedCalls = <<>>

NoVideo ==
    /\ pauseGapDuration = 0
    /\ audioFiles = {}
    /\ imageFiles = {}
    /\ segmentsCreated = <<>>
    /\ concatLines = <<>>
    /\ ffmpegLog = <<>>

----------------------------------------------------------------------------
(* Bounds of the model.                                                    *)

MaxRanges == 3      \* longest input list of a direct call
MaxCount == 3       \* largest target count
MaxCalls == 2       \* successive calls with the same list (SpecTwice)

Durs == {-10, 0, 1, 3, 10, 30}   \* endSample - startSample of an input range
Gaps == {0, 2}                  \* startSample - previous endSample
NormRates == {10}               \* sample rates of a direct call

MaxBlocks == 3                  \* blocks of constant level in a buffer
BlockLens == {2, 5, 12}         \* samples in a block
Levels == {-16384, 0, 600}      \* int16 value of a block: -0.5, 0, 0.018

\* sampleRate and splitAudioBySilence options of generateContent
\* (index.ts:20, 155-160: 24000 Hz, 20 ms frames, 10 ms hops, 450 ms of
\* silence), with the rate scaled down so that a frame is 2 or 4 samples and
\* the minimal silence 3, 5 or 1 frames
Settings ==
    { [sampleRate |-> 24, rmsThreshold |-> 15, minSilenceMs |-> 150,
       frameMs |-> 100, hopMs |-> 50],
      [sampleRate |-> 24, rmsThreshold |-> 15, minSilenceMs |-> 450,
       frameMs |-> 200, hopMs |-> 100],
      [sampleRate |-> 24, rmsThreshold |-> 15, minSilenceMs |-> 50,
       frameMs |-> 100, hopMs |-> 50] }

\* the largest segment number of a content directory
MaxSegments == 3

\* the longest byte sequence given to decodeAudioData
MaxBytes == 4

\* the longest buffer given to encodeAudioBufferToPCMBase64
MaxSamples == 2

\* the number of values of a trip: an input and two conversions
MaxTrip == 3

\* the byte values tried: the ends and the middle of 0..255
ByteValues == {0, 1, 127, 128, 255}

\* the samples tried, n for the float n/65536: in and out of [-1, 1]
SampleValues ==
    {-70000, -65536, -65535, -32769, -3, -1, 0, 1, 3, 32767, 65535, 65536, 70000}

\* the longest buffer given to sliceAudioBuffer
MaxSliceLen == 3

\* how far before 0 and beyond the length the slice arguments go
SliceMargin == 2

----------------------------------------------------------------------------
(* Helpers on sequences and ranges.                                        *)

Range(s, e) == [startSample |-> s, endSample |-> e]

Min(a, b) == IF a < b THEN a ELSE b
Max(a, b) == IF a > b THEN a ELSE b

\* Infinity, above every number a text of the model can spell
Infinity == 1000000000

\* splice(at, 1) that removes nothing
SpliceOutNothing(arr, at) == arr

\* Array.prototype.splice(at, 1): remove the element at 0-based index `at`.
SpliceOut(arr, at) ==
    [k \in 1..(Len(arr) - 1) |-> IF k <= at THEN arr[k] ELSE arr[k + 1]]

\* splice(at, 1, a, b) with the two new elements in the other order
SpliceInSwapped(arr, at, a, b) ==
    [k \in 1..(Len(arr) + 1) |->
        IF k <= at THEN arr[k]
        ELSE IF k = at + 1 THEN b
        ELSE IF k = at + 2 THEN a
        ELSE arr[k - 1]]

\* Array.prototype.splice(at, 1, a, b): replace the element at 0-based index
\* `at` by the two elements a, b.
SpliceIn(arr, at, a, b) ==
    [k \in 1..(Len(arr) + 1) |->
        IF k <= at THEN arr[k]
        ELSE IF k = at + 1 THEN a
        ELSE IF k = at + 2 THEN b
        ELSE arr[k - 1]]

Last(seq) == seq[Len(seq)]

\* the range objects an array of addresses denotes
Deref(h, arr) == [k \in 1..Len(arr) |-> h[arr[k]]]

Length(r) == r.endSample - r.startSample

\* a tiny-range test that finds no range tiny
IsTinyNever(r, rate) == FALSE

\* (endSample - startSample) / sampleRate < 0.25, index.ts:53-54
IsTiny(r, rate) == Length(r) * 4 < rate

----------------------------------------------------------------------------
(* normalizeRangesToCount, src/src/index.ts:44-95.                         *)

\* MinIdx with `dur <= minDur`: the last shortest range wins a tie
MinIdxLast(h, arr) ==
    CHOOSE m \in 0..(Len(arr) - 1) :
        /\ \A k \in 0..(Len(arr) - 1) : Length(h[arr[m + 1]]) <= Length(h[arr[k + 1]])
        /\ \A k \in (m + 1)..(Len(arr) - 1) : Length(h[arr[k + 1]]) > Length(h[arr[m + 1]])

\* index.ts:64-69: index (0-based) of the first range of least duration.
\* minDur starts at Infinity and is replaced only on `dur < minDur`.
MinIdx(h, arr) ==
    CHOOSE m \in 0..(Len(arr) - 1) :
        /\ \A k \in 0..(Len(arr) - 1) : Length(h[arr[m + 1]]) <= Length(h[arr[k + 1]])
        /\ \A k \in 0..(m - 1) : Length(h[arr[k + 1]]) > Length(h[arr[m + 1]])

\* MaxIdx with `dur >= maxDur`: the last longest range wins a tie
MaxIdxLast(h, arr, rate) ==
    IF \A k \in 1..Len(arr) : Length(h[arr[k]]) < -rate
    THEN 0
    ELSE CHOOSE m \in 0..(Len(arr) - 1) :
        /\ \A k \in 0..(Len(arr) - 1) : Length(h[arr[m + 1]]) >= Length(h[arr[k + 1]])
        /\ \A k \in (m + 1)..(Len(arr) - 1) : Length(h[arr[k + 1]]) < Length(h[arr[m + 1]])

\* a choice of the range to split that always takes the first
MaxIdxFirst(h, arr, rate) == 0

\* index.ts:81-86: index (0-based) of the first range of greatest duration.
\* maxIdx starts at 0 with maxDur = -1 and is replaced only on `dur > maxDur`,
\* so a list whose durations are all <= -1 s leaves maxIdx = 0.
MaxIdx(h, arr, rate) ==
    IF \A k \in 1..Len(arr) : Length(h[arr[k]]) <= -rate
    THEN 0
    ELSE CHOOSE m \in 0..(Len(arr) - 1) :
        /\ \A k \in 0..(Len(arr) - 1) : Length(h[arr[m + 1]]) >= Length(h[arr[k + 1]])
        /\ \A k \in 0..(m - 1) : Length(h[arr[k + 1]]) < Length(h[arr[m + 1]])

\* Mid without the division by 2
MidNoHalf(seg) == seg.startSample + seg.endSample

\* index.ts:88: Math.floor((seg.startSample + seg.endSample) / 2)
Mid(seg) == (seg.startSample + seg.endSample) \div 2

\* Slice that returns the whole array
SliceAll(arr, n) == arr

\* index.ts:94: out.slice(0, count), for count >= 0
Slice(arr, n) == SubSeq(arr, 1, Min(n, Len(arr)))

\* MergeCond with `>=`
MergeCondGe(n, c) == n >= c /\ n > 1

\* index.ts:63: out.length > count && out.length > 1
MergeCond(n, c) == n > c /\ n > 1

\* index.ts:49: let out = [...inputRanges]  (a new array of the same objects)
Enter ==
    /\ pc = "call"
    /\ out' = inputRanges
    /\ i' = 0
    /\ entry' = Deref(heap, inputRanges)
    /\ pc' = "premerge"
    /\ UNCHANGED <<heap, inputRanges, count, sampleRate, results>>
    /\ UNCHANGED <<audioVars, codecVars, mainVars, videoVars>>

\* index.ts:52-60: one iteration of the tiny-range loop
PreMergeStep ==
    /\ pc = "premerge"
    /\ i < Len(out) - 1
    /\ IF IsTiny(heap[out[i + 1]], sampleRate)
       THEN /\ heap' = [heap EXCEPT ![out[i + 1]].endSample = heap[out[i + 2]].endSample]
            /\ out' = SpliceOut(out, i + 1)
            /\ i' = i
       ELSE /\ i' = i + 1
            /\ UNCHANGED <<heap, out>>
    /\ UNCHANGED <<pc, inputRanges, count, sampleRate, entry, results>>
    /\ UNCHANGED <<audioVars, codecVars, mainVars, videoVars>>

\* index.ts:52: the loop condition i < out.length - 1 fails
PreMergeExit ==
    /\ pc = "premerge"
    /\ ~(i < Len(out) - 1)
    /\ pc' = "merge"
    /\ UNCHANGED <<heap, inputRanges, out, i, count, sampleRate, entry, results>>
    /\ UNCHANGED <<audioVars, codecVars, mainVars, videoVars>>

\* index.ts:63-77: one iteration of the merge loop
MergeStep ==
    /\ pc = "merge"
    /\ MergeCond(Len(out), count)
    /\ LET minIdx == MinIdx(heap, out) IN
       IF minIdx < Len(out) - 1
       THEN /\ heap' = [heap EXCEPT ![out[minIdx + 1]].endSample =
                                        heap[out[minIdx + 2]].endSample]
            /\ out' = SpliceOut(out, minIdx + 1)
       ELSE /\ heap' = [heap EXCEPT ![out[minIdx]].endSample =
                                        heap[out[minIdx + 1]].endSample]
            /\ out' = SpliceOut(out, minIdx)
    /\ UNCHANGED <<pc, inputRanges, i, count, sampleRate, entry, results>>
    /\ UNCHANGED <<audioVars, codecVars, mainVars, videoVars>>

\* index.ts:63: the loop condition fails
MergeExit ==
    /\ pc = "merge"
    /\ ~MergeCond(Len(out), count)
    /\ pc' = "split"
    /\ UNCHANGED <<heap, inputRanges, out, i, count, sampleRate, entry, results>>
    /\ UNCHANGED <<audioVars, codecVars, mainVars, videoVars>>

\* a split loop that makes a range [0, 0) when the list is empty
SplitStepFromNothing ==
    /\ pc = "split"
    /\ Len(out) < count
    /\ LET maxIdx == IF Len(out) = 0 THEN 0 ELSE MaxIdx(heap, out, sampleRate)
           seg == IF Len(out) = 0 THEN Range(0, 0) ELSE heap[out[maxIdx + 1]]
           mid == Mid(seg)
       IN  /\ heap' = heap \o <<Range(seg.startSample, mid), Range(mid, seg.endSample)>>
           /\ out' = IF Len(out) = 0 THEN <<Len(heap) + 1, Len(heap) + 2>>
                     ELSE SpliceIn(out, maxIdx, Len(heap) + 1, Len(heap) + 2)
           /\ pc' = pc
    /\ UNCHANGED <<inputRanges, i, count, sampleRate, entry, results>>
    /\ UNCHANGED <<audioVars, codecVars, mainVars, videoVars>>

\* index.ts:80-92: one iteration of the split loop.  On an empty list
\* out[maxIdx] is undefined and reading seg.startSample throws a TypeError.
SplitStep ==
    /\ pc = "split"
    /\ Len(out) < count
    /\ IF Len(out) = 0
       THEN /\ pc' = "error"
            /\ UNCHANGED <<heap, out>>
       ELSE LET maxIdx == MaxIdx(heap, out, sampleRate)
                seg == heap[out[maxIdx + 1]]
                mid == Mid(seg)
                left == Range(seg.startSample, mid)
                right == Range(mid, seg.endSample)
            IN  /\ heap' = heap \o <<left, right>>
                /\ out' = SpliceIn(out, maxIdx, Len(heap) + 1, Len(heap) + 2)
                /\ pc' = pc
    /\ UNCHANGED <<inputRanges, i, count, sampleRate, entry, results>>
    /\ UNCHANGED <<audioVars, codecVars, mainVars, videoVars>>

\* index.ts:80: the loop condition fails
SplitExit ==
    /\ pc = "split"
    /\ ~(Len(out) < count)
    /\ pc' = "return"
    /\ UNCHANGED <<heap, inputRanges, out, i, count, sampleRate, entry, results>>
    /\ UNCHANGED <<audioVars, codecVars, mainVars, videoVars>>

\* index.ts:94: return out.slice(0, count)
Return ==
    /\ pc = "return"
    /\ results' = Append(results, Deref(heap, Slice(out, count)))
    /\ pc' = "returned"
    /\ UNCHANGED <<heap, inputRanges, out, i, count, sampleRate, entry>>
    /\ UNCHANGED <<audioVars, codecVars, mainVars, videoVars>>

\* a caller that passes the same list, count and rate again
CallAgain ==
    /\ pc = "returned"
    /\ Len(results) < MaxCalls
    /\ pc' = "call"
    /\ UNCHANGED <<heap, inputRanges, out, i, count, sampleRate, entry, results>>
    /\ UNCHANGED <<audioVars, codecVars, mainVars, videoVars>>

Normalize ==
    \/ Enter
    \/ PreMergeStep
    \/ PreMergeExit
    \/ MergeStep
    \/ MergeExit
    \/ SplitStep
    \/ SplitExit
    \/ Return

----------------------------------------------------------------------------
(* Direct calls of normalizeRangesToCount on bounded range lists.          *)

RECURSIVE Layout(_, _)
\* the range list with the given (gap, duration) pairs, laid out from `from`
Layout(shape, from) ==
    IF shape = <<>> THEN <<>>
    ELSE LET s == from + shape[1][1]
             e == s + shape[1][2]
         IN  <<Range(s, e)>> \o Layout(Tail(shape), e)

Shapes == UNION {[1..n -> Gaps \X Durs] : n \in 0..MaxRanges}

InitNorm ==
    /\ \E shape \in Shapes : heap = Layout(shape, 0)
    /\ inputRanges = [k \in 1..Len(heap) |-> k]
    /\ count \in 0..MaxCount
    /\ sampleRate \in NormRates
    /\ pc = "call"
    /\ out = <<>>
    /\ i = 0
    /\ entry = <<>>
    /\ results = <<>>
    /\ data = <<>>
    /\ options = [rmsThreshold |-> 15, minSilenceMs |-> 450, frameMs |-> 20, hopMs |-> 10]
    /\ boundaries = <<>>
    /\ clips = <<>>
    /\ framesRms = <<>>
    /\ frameStart = 0
    /\ NoCodec /\ NoMain /\ NoVideo

SpecNorm == InitNorm /\ [][Normalize]_vars

\* the call runs on: a loop whose condition holds makes its next iteration
SpecNormFair == InitNorm /\ [][Normalize]_vars /\ WF_vars(Normalize)

\* a caller that holds a list of ordered ranges with start <= end
InitTwice ==
    /\ InitNorm
    /\ \A k \in 1..Len(heap) :
        /\ heap[k].startSample <= heap[k].endSample
        /\ k > 1 => heap[k].startSample >= heap[k - 1].endSample

SpecTwice == InitTwice /\ [][Normalize \/ CallAgain]_vars

----------------------------------------------------------------------------
(* splitAudioBySilence, src/unnamed/part_002:72-130.                       *)

\* FrameSize without Math.max(1, ...)
FrameSizeUnclamped(rate, opt) == (rate * opt.frameMs) \div 1000

\* part_002:88: Math.max(1, Math.floor(sampleRate * (frameMs / 1000)))
FrameSize(rate, opt) == Max(1, (rate * opt.frameMs) \div 1000)

\* part_002:89: Math.max(1, Math.floor(sampleRate * (hopMs / 1000)))
HopSize(rate, opt) == Max(1, (rate * opt.hopMs) \div 1000)

\* part_002:90: Math.ceil(minSilenceMs / hopMs).  Dividing by hopMs = 0
\* gives Infinity, -Infinity or (0 / 0) NaN; the value is only compared with
\* `run` (part_002:110), and NaN like Infinity equals no run, so NaN is
\* written as Infinity here.
MinSilenceFrames(opt) ==
    IF opt.hopMs > 0 THEN (opt.minSilenceMs + opt.hopMs - 1) \div opt.hopMs
    ELSE IF opt.hopMs < 0
    THEN ((0 - opt.minSilenceMs) + (0 - opt.hopMs) - 1) \div (0 - opt.hopMs)
    ELSE IF opt.minSilenceMs < 0 THEN 0 - Infinity ELSE Infinity

RECURSIVE SumSquares(_, _, _)
\* part_002:94-98: the sum of v * v over the frame of n samples that starts
\* at 0-based index `start`, in units of 2^-30 (v = k / 32768)
SumSquares(d, start, n) ==
    IF n = 0 THEN 0
    ELSE d[start + n] * d[start + n] + SumSquares(d, start, n - 1)

\* part_002:99, 103: Math.sqrt(sum / frameSize) < rmsThreshold with
\* rmsThreshold = 0.015, that is sum / 2^30 / frameSize < 0.000225, that is
\* sum * 625 < 9 * 2^24 * frameSize
IsSilentFrame(sum, frameSize) == sum <= (150994944 * frameSize - 1) \div 625

\* part_002:92-103: framesRms.map(r => r < rmsThreshold), one entry for each
\* frame start `start`, start + hopSize, ... at which a whole frame fits
IsSilence(d, start, frameSize, hopSize) ==
    [f \in 1..(IF start + frameSize <= Len(d)
                THEN (Len(d) - start - frameSize) \div hopSize + 1 ELSE 0) |->
        IsSilentFrame(SumSquares(d, start + (f - 1) * hopSize, frameSize), frameSize)]

\* FrameCenter that steps back by the whole run
FrameCenterWholeRun(idx, minSilenceFrames) == idx - minSilenceFrames

\* FrameCenter that steps forward instead of back
FrameCenterAhead(idx, minSilenceFrames) == idx + minSilenceFrames

\* FrameCenter that takes the first frame of the run less half the minimum
FrameCenterFromStart(idx, minSilenceFrames) ==
    idx - (minSilenceFrames - 1) - (minSilenceFrames \div 2)

\* part_002:111: i - Math.floor(minSilenceFrames / 2)
FrameCenter(idx, minSilenceFrames) == idx - (minSilenceFrames \div 2)

\* the loop body with `run >= minSilenceFrames`: a cut at every further frame
ScanFrameEveryFrame(silent, idx, run, minSilenceFrames, hopSize) ==
    IF silent
    THEN <<IF run + 1 >= minSilenceFrames
           THEN <<(idx - (minSilenceFrames \div 2)) * hopSize>> ELSE <<>>,
           run + 1>>
    ELSE <<<<>>, 0>>

\* part_002:108-116: the loop body at frame idx, entered with the counter
\* `run`: <<the boundaries pushed, the counter afterwards>>
ScanFrame(silent, idx, run, minSilenceFrames, hopSize) ==
    IF silent
    THEN <<IF run + 1 = minSilenceFrames
           THEN <<FrameCenter(idx, minSilenceFrames) * hopSize>> ELSE <<>>,
           run + 1>>
    ELSE <<<<>>, 0>>

RECURSIVE ScanFrames(_, _, _, _, _, _)
\* part_002:107-117: the loop over the frames lo .. hi - 1 in order, taken as
\* its first half followed by its second half: <<boundaries pushed, counter>>
ScanFrames(silence, lo, hi, run, minSilenceFrames, hopSize) ==
    IF hi <= lo THEN <<<<>>, run>>
    ELSE IF hi = lo + 1
    THEN ScanFrame(silence[lo + 1], lo, run, minSilenceFrames, hopSize)
    ELSE LET mid == (lo + hi) \div 2
             first == ScanFrames(silence, lo, mid, run, minSilenceFrames, hopSize)
             second == ScanFrames(silence, mid, hi, first[2], minSilenceFrames, hopSize)
         IN  <<first[1] \o second[1], second[2]>>

\* part_002:105-118: the boundaries pushed from frame idx on, the counter
\* being `run` there
Boundaries(silence, idx, run, minSilenceFrames, hopSize) ==
    ScanFrames(silence, idx, Len(silence), run, minSilenceFrames, hopSize)[1]

\* KeepSegment that keeps every candidate
KeepAll(start, end, rate) == TRUE

\* part_002:125: end - start > sampleRate * 0.2
KeepSegment(start, end, rate) == (end - start) * 5 > rate

RECURSIVE Segments(_, _, _)
\* part_002:121-128: the candidates between successive cut samples, from
\* 0-based index idx of `samples`, without the short ones
Segments(samples, idx, rate) ==
    IF idx >= Len(samples) - 1 THEN <<>>
    ELSE (IF KeepSegment(samples[idx + 1], samples[idx + 2], rate)
          THEN <<Range(samples[idx + 1], samples[idx + 2])>>
          ELSE <<>>)
         \o Segments(samples, idx + 1, rate)

\* part_002:105-118 on the frames of buffer d
BoundariesOf(d, rate, opt) ==
    Boundaries(IsSilence(d, 0, FrameSize(rate, opt), HopSize(rate, opt)),
               0, 0, MinSilenceFrames(opt), HopSize(rate, opt))

\* index.ts:155-160: ranges = splitAudioBySilence(audioBuffer, {...}).  The
\* returned objects are new; `heap` holds nothing before the call.
SplitAudioBySilence ==
    /\ pc = "start"
    /\ boundaries' = BoundariesOf(data, sampleRate, options)
    /\ heap' = Segments(<<0>> \o boundaries' \o <<Len(data)>>, 0, sampleRate)
    /\ inputRanges' = [k \in 1..Len(heap') |-> k]
    /\ pc' = "call"
    /\ UNCHANGED <<out, i, count, sampleRate, entry, results, data, options, clips,
                   framesRms, frameStart>>
    /\ UNCHANGED <<codecVars, mainVars, videoVars>>

----------------------------------------------------------------------------
(* splitAudioBySilence with its frame loop taken turn by turn,             *)
(* part_002:88-130.                                                        *)

\* the longest buffer of the frame loop taken turn by turn
MaxProfileLen == 5

\* a sample is silent (0) or loud (0.5)
ProfileLevels == {0, 16384}

ProfileBuffers == UNION {[1..n -> ProfileLevels] : n \in 0..MaxProfileLen}

\* options at 10 samples a second: frames of 200 ms (2 samples), 0 ms and
\* -200 ms, hops of 100 ms (1 sample), 200 ms (2 samples), 0 ms and -100 ms
ProfileSettings ==
    {[sampleRate |-> 10, rmsThreshold |-> 15, minSilenceMs |-> 200,
      frameMs |-> f, hopMs |-> h] : f \in {200, 0, -200}, h \in {100, 200, 0, -100}}

\* part_002:96-97: the sum after a read outside the buffer, where data[k] is
\* undefined and v * v is NaN; every defined sum is >= 0
NaNSum == -1

\* part_002:94-98: the sum of the frame that starts at `start`
FrameSum(d, start, frameSize) ==
    IF frameSize <= 0 THEN 0
    ELSE IF 0 <= start /\ start + frameSize <= Len(d)
    THEN SumSquares(d, start, frameSize)
    ELSE NaNSum

\* part_002:99, 103: r < rmsThreshold, false for NaN
FrameIsSilent(sum, frameSize) == sum # NaNSum /\ IsSilentFrame(sum, frameSize)

\* the loop condition `start < data.length`, which takes a trailing partial
\* frame
FrameFitsPartial(start, frameSize, len) == start < len

\* part_002:93: start + frameSize <= data.length
FrameFits(start, frameSize, len) == start + frameSize <= len

\* part_002:93-101: one turn of the frame loop.  An entry of framesRms holds
\* the frame's sum of squares in place of its rms, and the frame's start.
ProfileStep ==
    /\ pc = "profile"
    /\ FrameFits(frameStart, FrameSize(sampleRate, options), Len(data))
    /\ framesRms' = Append(framesRms,
           [start |-> frameStart,
            sum |-> FrameSum(data, frameStart, FrameSize(sampleRate, options))])
    /\ frameStart' = frameStart + HopSize(sampleRate, options)
    /\ UNCHANGED <<pc, heap, inputRanges, out, i, count, sampleRate, entry, results,
                   data, options, boundaries, clips>>
    /\ UNCHANGED <<codecVars, mainVars, videoVars>>

\* part_002:93, 103-129: the frame loop is left, the boundaries are scanned
\* and the segments are returned
ProfileExit ==
    /\ pc = "profile"
    /\ ~FrameFits(frameStart, FrameSize(sampleRate, options), Len(data))
    /\ LET isSilence == [f \in 1..Len(framesRms) |->
                            FrameIsSilent(framesRms[f].sum,
                                          FrameSize(sampleRate, options))]
       IN  boundaries' = Boundaries(isSilence, 0, 0, MinSilenceFrames(options),
                                    HopSize(sampleRate, options))
    /\ heap' = Segments(<<0>> \o boundaries' \o <<Len(data)>>, 0, sampleRate)
    /\ inputRanges' = [k \in 1..Len(heap') |-> k]
    /\ pc' = "ranges"
    /\ UNCHANGED <<out, i, count, sampleRate, entry, results, data, options, clips,
                   framesRms, frameStart>>
    /\ UNCHANGED <<codecVars, mainVars, videoVars>>

InitProfile ==
    /\ pc = "profile"
    /\ data \in ProfileBuffers
    /\ \E st \in ProfileSettings :
        /\ sampleRate = st.sampleRate
        /\ options = [rmsThreshold |-> st.rmsThreshold, minSilenceMs |-> st.minSilenceMs,
                      frameMs |-> st.frameMs, hopMs |-> st.hopMs]
    /\ framesRms = <<>>
    /\ frameStart = 0
    /\ boundaries = <<>>
    /\ clips = <<>>
    /\ heap = <<>>
    /\ inputRanges = <<>>
    /\ out = <<>>
    /\ i = 0
    /\ count = 0
    /\ entry = <<>>
    /\ results = <<>>
    /\ NoCodec /\ NoMain /\ NoVideo

SpecProfile == InitProfile /\ [][ProfileStep \/ ProfileExit]_vars

\* the function runs on: a turn that can be taken is taken
SpecProfileFair ==
    InitProfile /\ [][ProfileStep \/ ProfileExit]_vars
                /\ WF_vars(ProfileStep \/ ProfileExit)

----------------------------------------------------------------------------
(* sliceAudioBuffer and encodeAudioBufferToPCMBase64, part_002:58-67 and   *)
(* 135-151.                                                                *)

\* part_002:136-141: dst[k] = src[startSample + k] ?? 0 for k < length,
\* sliceAudioBuffer that reads src[i] instead of src[startSample + i]
SliceFromZero(d, startSample, endSample) ==
    [k \in 1..Max(0, endSample - startSample) |->
        IF k \in 1..Len(d) THEN d[k] ELSE 0]

\* length = Math.max(0, endSample - startSample)
SliceAudioBuffer(d, startSample, endSample) ==
    [k \in 1..Max(0, endSample - startSample) |->
        IF startSample + k \in 1..Len(d) THEN d[startSample + k] ELSE 0]

\* part_002:62-63: the int16 stored for the sample k / 32768: s * 32768 for
\* s < 0 and s * 32767, truncated, for s >= 0 (|s| <= 1, so the clamp is idle)
EncodeSample(k) == IF k < 0 THEN k ELSE (k * 32767) \div 32768

\* part_002:65: the two little-endian bytes of an int16
EncodeAudioBuffer(d) ==
    [b \in 1..(2 * Len(d)) |->
        LET u == EncodeSample(d[(b + 1) \div 2]) % 65536
        IN  IF b % 2 = 1 THEN u % 256 ELSE u \div 256]

\* index.ts:166-169: matchedRanges.map(r => encode(slice(audioBuffer, r...)));
\* a clip is the byte sequence its base64 text stands for
EncodeClips ==
    /\ pc = "returned"
    /\ clips' = [k \in 1..Len(Last(results)) |->
                    EncodeAudioBuffer(SliceAudioBuffer(data,
                        Last(results)[k].startSample, Last(results)[k].endSample))]
    /\ pc' = "done"
    /\ UNCHANGED <<heap, inputRanges, out, i, count, sampleRate, entry, results,
                   data, options, boundaries, framesRms, frameStart>>
    /\ UNCHANGED <<codecVars, mainVars, videoVars>>

----------------------------------------------------------------------------
(* generateContent's audio path on bounded buffers, index.ts:151-169.      *)

RECURSIVE Concat(_)
Concat(blocks) ==
    IF blocks = <<>> THEN <<>>
    ELSE [k \in 1..blocks[1][1] |-> blocks[1][2]] \o Concat(Tail(blocks))

\* 2 s at 0.5, 1 s of silence, 2 s at 0.5, at 24 samples a second
ToneSilenceTone == Concat(<< <<48, 16384>>, <<24, 0>>, <<48, 16384>> >>)

\* a short tone, a short silence, a click, a long silence
ToneSilenceClickSilence ==
    Concat(<< <<5, 16384>>, <<2, 0>>, <<2, 16384>>, <<12, 0>> >>)

Buffers ==
    {Concat(b) : b \in UNION {[1..n -> BlockLens \X Levels] : n \in 0..MaxBlocks}}
    \cup {ToneSilenceTone, ToneSilenceClickSilence}

InitPipe ==
    /\ data \in Buffers
    /\ \E st \in Settings :
        /\ sampleRate = st.sampleRate
        /\ options = [rmsThreshold |-> st.rmsThreshold, minSilenceMs |-> st.minSilenceMs,
                      frameMs |-> st.frameMs, hopMs |-> st.hopMs]
    /\ count \in 0..MaxCount
    /\ pc = "start"
    /\ heap = <<>>
    /\ inputRanges = <<>>
    /\ out = <<>>
    /\ i = 0
    /\ entry = <<>>
    /\ results = <<>>
    /\ boundaries = <<>>
    /\ clips = <<>>
    /\ framesRms = <<>>
    /\ frameStart = 0
    /\ NoCodec /\ NoMain /\ NoVideo

SpecPipe == InitPipe /\ [][SplitAudioBySilence \/ Normalize \/ EncodeClips]_vars

----------------------------------------------------------------------------
(* decodeAudioData and encodeAudioBufferToPCMBase64 on their own,          *)
(* part_002:30-67.  In this section a sample of a buffer is the integer n  *)
(* of the float n/65536, so that a buffer can hold values between two      *)
(* int16 steps: the int16 v decodes to 2 * v.                              *)

\* the normalizer and the audio path before they are used
NoAudio ==
    /\ heap = <<>>
    /\ inputRanges = <<>>
    /\ out = <<>>
    /\ i = 0
    /\ count = 0
    /\ entry = <<>>
    /\ results = <<>>
    /\ options = [rmsThreshold |-> 15, minSilenceMs |-> 450, frameMs |-> 20, hopMs |-> 10]
    /\ boundaries = <<>>
    /\ clips = <<>>
    /\ framesRms = <<>>
    /\ frameStart = 0

\* the values a trip holds: bytes, a buffer's samples, or the error thrown
Bytes(v) == [kind |-> "bytes", v |-> v]
Buffer(v) == [kind |-> "buffer", v |-> v]
RangeError == [kind |-> "RangeError", v |-> <<>>]

\* part_002:35: element k (1-based) of new Int16Array(data.buffer)
Int16At(data8, k) ==
    LET u == data8[2 * k - 1] + 256 * data8[2 * k]
    IN  IF u >= 32768 THEN u - 65536 ELSE u

\* decodeAudioData that ignores a trailing odd byte
DecodeAudioDataLenient(data8) ==
    Buffer([k \in 1..(Len(data8) \div 2) |-> 2 * Int16At(data8, k)])

\* part_002:30-53 with numChannels = 1.  data comes from decode (part_002:
\* 22-25), so data.buffer holds exactly its bytes, and new Int16Array of a
\* buffer of odd byte length throws a RangeError.
DecodeAudioData(data8) ==
    IF Len(data8) % 2 # 0 THEN RangeError
    ELSE Buffer([k \in 1..(Len(data8) \div 2) |-> 2 * Int16At(data8, k)])

\* part_002:62: Math.max(-1, Math.min(1, v))
Clamp(n) == Max(-65536, Min(65536, n))

\* the integer an Int16Array stores for a / b: the quotient cut toward zero
Truncate(a, b) == IF a >= 0 THEN a \div b ELSE -((-a) \div b)

\* part_002:62-63: s < 0 ? s * 32768 : s * 32767, stored in an Int16Array;
\* (n / 65536) * 32768 is n / 2
EncodeFloat(n) ==
    LET s == Clamp(n)
    IN  IF s < 0 THEN Truncate(s, 2) ELSE Truncate(s * 32767, 65536)

\* part_002:58-67: the bytes of the Int16Array, little-endian
EncodeChannel(channel) ==
    [b \in 1..(2 * Len(channel)) |->
        LET u == EncodeFloat(channel[(b + 1) \div 2]) % 65536
        IN  IF b % 2 = 1 THEN u % 256 ELSE u \div 256]

\* decodeAudioData(decode(base64)) applied to the bytes a trip ends with
DecodeStep ==
    /\ pc = "codec"
    /\ Len(trip) < MaxTrip
    /\ Last(trip).kind = "bytes"
    /\ trip' = Append(trip, DecodeAudioData(Last(trip).v))
    /\ UNCHANGED <<pc, heap, inputRanges, out, i, count, sampleRate, entry, results>>
    /\ UNCHANGED <<audioVars, sliceArgs, sliced, mainVars, videoVars>>

\* encodeAudioBufferToPCMBase64 applied to the buffer a trip ends with
EncodeStep ==
    /\ pc = "codec"
    /\ Len(trip) < MaxTrip
    /\ Last(trip).kind = "buffer"
    /\ trip' = Append(trip, Bytes(EncodeChannel(Last(trip).v)))
    /\ UNCHANGED <<pc, heap, inputRanges, out, i, count, sampleRate, entry, results>>
    /\ UNCHANGED <<audioVars, sliceArgs, sliced, mainVars, videoVars>>

ByteSeqs == UNION {[1..n -> ByteValues] : n \in 0..MaxBytes}

SampleSeqs == UNION {[1..n -> SampleValues] : n \in 0..MaxSamples}

InitCodec ==
    /\ pc = "codec"
    /\ \/ \E b \in ByteSeqs : trip = <<Bytes(b)>>
       \/ \E c \in SampleSeqs : trip = <<Buffer(c)>>
    /\ sliceArgs = [startSample |-> 0, endSample |-> 0]
    /\ sliced = <<>>
    /\ sampleRate = 24
    /\ data = <<>>
    /\ NoAudio /\ NoMain /\ NoVideo

SpecCodec == InitCodec /\ [][DecodeStep \/ EncodeStep]_vars

----------------------------------------------------------------------------
(* sliceAudioBuffer on its own, part_002:135-151.                          *)

\* sliceAudioBuffer(buffer, startSample, endSample) with any two integers
SliceStep ==
    /\ pc = "slice"
    /\ \E startSample \in (0 - SliceMargin)..(Len(data) + SliceMargin) :
       \E endSample \in (0 - SliceMargin)..(Len(data) + SliceMargin) :
        /\ sliceArgs' = [startSample |-> startSample, endSample |-> endSample]
        /\ sliced' = <<[sampleRate |-> sampleRate,
                        length |-> Max(0, endSample - startSample),
                        samples |-> SliceAudioBuffer(data, startSample, endSample)]>>
    /\ pc' = "sliced"
    /\ UNCHANGED <<heap, inputRanges, out, i, count, sampleRate, entry, results>>
    /\ UNCHANGED <<audioVars, trip, mainVars, videoVars>>

InitSlice ==
    /\ pc = "slice"
    /\ data \in UNION {[1..n -> Levels] : n \in 0..MaxSliceLen}
    /\ sampleRate \in {24, 24000}
    /\ NoCodec /\ NoAudio /\ NoMain /\ NoVideo

SpecSlice == InitSlice /\ [][SliceStep]_vars

----------------------------------------------------------------------------
(* parseFloat as main and createVideos use it.  A text is a sequence of    *)
(* one-character strings and a number is counted in thousandths; digits    *)
(* after the third decimal and exponents are left out of the texts tried.  *)

Num(n) == [nan |-> FALSE, n |-> n]
NaN == [nan |-> TRUE, n |-> 0]


Digits == {"0", "1", "2", "3", "4", "5", "6", "7", "8", "9"}

DigitValue(c) ==
    CASE c = "0" -> 0 [] c = "1" -> 1 [] c = "2" -> 2 [] c = "3" -> 3
      [] c = "4" -> 4 [] c = "5" -> 5 [] c = "6" -> 6 [] c = "7" -> 7
      [] c = "8" -> 8 [] c = "9" -> 9

RECURSIVE SkipWhiteSpace(_, _)
SkipWhiteSpace(text, pos) ==
    IF pos <= Len(text) /\ text[pos] = " " THEN SkipWhiteSpace(text, pos + 1) ELSE pos

RECURSIVE IntegerPart(_, _, _)
\* the digits from pos on: <<their value, the position after them>>
IntegerPart(text, pos, acc) ==
    IF pos <= Len(text) /\ text[pos] \in Digits
    THEN IntegerPart(text, pos + 1, acc * 10 + DigitValue(text[pos]))
    ELSE <<acc, pos>>

RECURSIVE FractionPart(_, _, _, _)
\* the decimals from pos on, in thousandths: <<value, the position after them>>
FractionPart(text, pos, acc, unit) ==
    IF pos <= Len(text) /\ text[pos] \in Digits
    THEN FractionPart(text, pos + 1, acc + unit * DigitValue(text[pos]), unit \div 10)
    ELSE <<acc, pos>>

\* parseFloat(text)
ParseFloat(text) ==
    LET start == SkipWhiteSpace(text, 1)
        signed == start <= Len(text) /\ text[start] \in {"-", "+"}
        negative == signed /\ text[start] = "-"
        first == IF signed THEN start + 1 ELSE start
        int == IntegerPart(text, first, 0)
        dotted == int[2] <= Len(text) /\ text[int[2]] = "."
        frac == IF dotted THEN FractionPart(text, int[2] + 1, 0, 100) ELSE <<0, int[2]>>
        anyDigit == int[2] > first \/ (dotted /\ frac[2] > int[2] + 1)
        magnitude == int[1] * 1000 + frac[1]
    IN  IF /\ first + 7 <= Len(text)
           /\ SubSeq(text, first, first + 7) = <<"I", "n", "f", "i", "n", "i", "t", "y">>
        THEN Num(IF negative THEN 0 - Infinity ELSE Infinity)
        ELSE IF ~anyDigit THEN NaN
        ELSE Num(IF negative THEN 0 - magnitude ELSE magnitude)

\* process.env.X ? parseFloat(process.env.X) : dflt
EnvNumber(v, dflt) == IF v.set /\ v.text # <<>> THEN ParseFloat(v.text) ELSE Num(dflt)

Set(text) == [set |-> TRUE, text |-> text]

----------------------------------------------------------------------------
(* main's handling of AUDIO_SPEED and the calls of adjustAudioSpeed it     *)
(* leads to: index.ts:312-317, 351, 120-124, 141-145; part_002:196-203.    *)

\* the values of AUDIO_SPEED tried
AudioSpeedTexts ==
    {<<>>,
     <<"a", "b", "c">>,
     <<"N", "a", "N">>,
     <<"I", "n", "f", "i", "n", "i", "t", "y">>,
     <<"-", "1">>,
     <<"0">>,
     <<"0", ".", "4">>,
     <<"0", ".", "4", "9", "9">>,
     <<"0", ".", "5">>,
     <<".", "5">>,
     <<"0", ".", "8">>,
     <<" ", "0", ".", "7", "5">>,
     <<"1">>,
     <<"1", ".", "0">>,
     <<"1", ".", "5", "x">>,
     <<"2">>,
     <<"2", ".", "0">>,
     <<"2", ".", "0", "0", "1">>,
     <<"2", ".", "5">>,
     <<"1", "0">>,
     <<"+", "1", ".", "2", "5">>}

\* index.ts:314-317 without the upper limit
ValidSpeedNoUpperLimit(parsed) ==
    IF parsed.nan \/ parsed.n < 500 THEN 1000 ELSE parsed.n

\* index.ts:314-317: the speed main keeps
ValidSpeed(parsed) ==
    IF parsed.nan \/ parsed.n < 500 \/ parsed.n > 2000 THEN 1000 ELSE parsed.n

\* part_002:196-276: what a call of adjustAudioSpeed can end in
AdjustAudioSpeed(speed) ==
    IF speed = 1000 THEN {"unchanged"}
    ELSE IF speed < 500 \/ speed > 2000 THEN {"out of range"}
    ELSE {"adjusted", "ffmpeg failed"}

\* index.ts:313-317
ReadAudioSpeed ==
    /\ pc = "main"
    /\ audioSpeed' = ValidSpeed(EnvNumber(env.AUDIO_SPEED, 1000))
    /\ pc' = "target"
    /\ UNCHANGED <<heap, inputRanges, out, i, count, sampleRate, entry, results>>
    /\ UNCHANGED <<audioVars, codecVars, env, generateSpanish, speedCalls, videoVars>>

\* index.ts:121-124 (where = "target") and 142-145 (where = "spanish")
AdjustIfNeeded(where, next) ==
    /\ pc = where
    /\ IF audioSpeed # 1000
       THEN \E outcome \in AdjustAudioSpeed(audioSpeed) :
            /\ speedCalls' = Append(speedCalls, [speed |-> audioSpeed, outcome |-> outcome])
            /\ pc' = IF outcome \in {"unchanged", "adjusted"} THEN next ELSE "failed"
       ELSE /\ speedCalls' = speedCalls
            /\ pc' = next
    /\ UNCHANGED <<heap, inputRanges, out, i, count, sampleRate, entry, results>>
    /\ UNCHANGED <<audioVars, codecVars, env, audioSpeed, generateSpanish, videoVars>>

AdjustTarget == AdjustIfNeeded("target", IF generateSpanish THEN "spanish" ELSE "generated")

AdjustSpanish == AdjustIfNeeded("spanish", "generated")

InitMain ==
    /\ pc = "main"
    /\ \E v \in {Unset} \cup {Set(t) : t \in AudioSpeedTexts} :
        env = [AUDIO_SPEED |-> v, PAUSE_GAP_DURATION |-> Unset]
    /\ generateSpanish \in BOOLEAN
    /\ audioSpeed = 1000
    /\ speedCalls = <<>>
    /\ sampleRate = 24000
    /\ data = <<>>
    /\ NoAudio /\ NoCodec /\ NoVideo

SpecMain == InitMain /\ [][ReadAudioSpeed \/ AdjustTarget \/ AdjustSpanish]_vars

----------------------------------------------------------------------------
(* createVideos and processLanguage, src/unnamed/part_004:192-331 and      *)
(* 380-430, for the target language (audioSuffix '').                      *)

\* the values of PAUSE_GAP_DURATION tried
PauseGapTexts ==
    {<<>>,
     <<"a", "b", "c">>,
     <<"-", "2">>,
     <<"0">>,
     <<"0", ".", "5">>,
     <<"2">>}

\* part_004:60-83: the largest n with a file audio_n.wav, 0 without any
FindMaxSegmentNumber(files) ==
    IF files = {} THEN 0 ELSE CHOOSE n \in files : \A m \in files : m <= n

\* a line of the concat list: a segment's file or a pause's file
SegmentLine(n) == [kind |-> "segment", n |-> n]
PauseLine(n) == [kind |-> "pause", n |-> n]

\* part_004:292 without the exception of the last segment
PauseAfterEvery(idx, created) == TRUE

\* part_004:292: i < segmentsCreated.length - 1
PauseAfter(idx, created) == idx < Len(created) - 1

\* part_004:382-386
CreateVideos ==
    /\ pc = "videos"
    /\ LET parsed == EnvNumber(env.PAUSE_GAP_DURATION, 0)
       IN  pauseGapDuration' = IF parsed.nan \/ parsed.n < 0 THEN 0 ELSE parsed.n
    /\ pc' = "language"
    /\ UNCHANGED <<heap, inputRanges, out, i, count, sampleRate, entry, results>>
    /\ UNCHANGED <<audioVars, codecVars, mainVars>>
    /\ UNCHANGED <<audioFiles, imageFiles, segmentsCreated, concatLines, ffmpegLog>>

\* part_004:201-218
ProcessLanguage ==
    /\ pc = "language"
    /\ IF FindMaxSegmentNumber(audioFiles) = 0
       THEN pc' = "false" /\ i' = i
       ELSE pc' = "segments" /\ i' = 1
    /\ UNCHANGED <<heap, inputRanges, out, count, sampleRate, entry, results>>
    /\ UNCHANGED <<audioVars, codecVars, mainVars, videoVars>>

\* part_004:218-267: one turn of the segment loop
SegmentStep ==
    /\ pc = "segments"
    /\ i <= FindMaxSegmentNumber(audioFiles)
    /\ IF i \notin imageFiles \/ i \notin audioFiles
       THEN /\ i' = i + 1
            /\ UNCHANGED <<pc, segmentsCreated, ffmpegLog>>
       ELSE \E ok \in BOOLEAN :
            /\ ffmpegLog' = Append(ffmpegLog,
                   [cmd |-> "segment", n |-> i, image |-> i, ok |-> ok])
            /\ IF ok
               THEN /\ segmentsCreated' = Append(segmentsCreated, i)
                    /\ i' = i + 1
                    /\ pc' = pc
               ELSE /\ pc' = "false"
                    /\ UNCHANGED <<segmentsCreated, i>>
    /\ UNCHANGED <<heap, inputRanges, out, count, sampleRate, entry, results>>
    /\ UNCHANGED <<audioVars, codecVars, mainVars>>
    /\ UNCHANGED <<pauseGapDuration, audioFiles, imageFiles, concatLines>>

\* part_004:269-282: after the segment loop
SegmentsDone ==
    /\ pc = "segments"
    /\ i > FindMaxSegmentNumber(audioFiles)
    /\ IF Len(segmentsCreated) = 0
       THEN pc' = "false" /\ i' = i
       ELSE pc' = "concat" /\ i' = 0
    /\ UNCHANGED <<heap, inputRanges, out, count, sampleRate, entry, results>>
    /\ UNCHANGED <<audioVars, codecVars, mainVars, videoVars>>

\* part_004:287-322: one turn of the loop that adds a segment and its pause;
\* FFmpeg fails on an input image that does not exist (part_004:296, 303)
ConcatStep ==
    /\ pc = "concat"
    /\ pauseGapDuration > 0
    /\ i < Len(segmentsCreated)
    /\ LET line == SegmentLine(segmentsCreated[i + 1])
           segmentNum == i + 1
       IN  IF PauseAfter(i, segmentsCreated)
           THEN \E silent \in BOOLEAN,
                   pause \in IF segmentNum \in imageFiles THEN BOOLEAN ELSE {FALSE} :
                LET silentCmd == [cmd |-> "silent", n |-> segmentNum,
                                  image |-> 0, ok |-> silent]
                    pauseCmd == [cmd |-> "pause", n |-> segmentNum,
                                 image |-> segmentNum, ok |-> pause]
                IN  IF ~silent
                    THEN /\ ffmpegLog' = Append(ffmpegLog, silentCmd)
                         /\ concatLines' = Append(concatLines, line)
                    ELSE /\ ffmpegLog' = ffmpegLog \o <<silentCmd, pauseCmd>>
                         /\ concatLines' =
                              IF pause
                              THEN concatLines \o <<line, PauseLine(segmentNum)>>
                              ELSE Append(concatLines, line)
           ELSE /\ concatLines' = Append(concatLines, line)
                /\ ffmpegLog' = ffmpegLog
    /\ i' = i + 1
    /\ UNCHANGED <<pc, heap, inputRanges, out, count, sampleRate, entry, results>>
    /\ UNCHANGED <<audioVars, codecVars, mainVars>>
    /\ UNCHANGED <<pauseGapDuration, audioFiles, imageFiles, segmentsCreated>>

\* part_004:326-331: no pause, every segment in the order of creation
ConcatAll ==
    /\ pc = "concat"
    /\ pauseGapDuration <= 0
    /\ concatLines' = concatLines \o
           [k \in 1..Len(segmentsCreated) |-> SegmentLine(segmentsCreated[k])]
    /\ pc' = "written"
    /\ UNCHANGED <<heap, inputRanges, out, i, count, sampleRate, entry, results>>
    /\ UNCHANGED <<audioVars, codecVars, mainVars>>
    /\ UNCHANGED <<pauseGapDuration, audioFiles, imageFiles, segmentsCreated, ffmpegLog>>

\* part_004:325 and 331: the loop is over and the list is written
ConcatDone ==
    /\ pc = "concat"
    /\ pauseGapDuration > 0
    /\ i >= Len(segmentsCreated)
    /\ pc' = "written"
    /\ UNCHANGED <<heap, inputRanges, out, i, count, sampleRate, entry, results>>
    /\ UNCHANGED <<audioVars, codecVars, mainVars, videoVars>>

InitVideo ==
    /\ pc = "videos"
    /\ \E v \in {Unset} \cup {Set(t) : t \in PauseGapTexts} :
        env = [AUDIO_SPEED |-> Unset, PAUSE_GAP_DURATION |-> v]
    /\ audioSpeed = 1000
    /\ generateSpanish = FALSE
    /\ speedCalls = <<>>
    /\ audioFiles \in SUBSET (1..MaxSegments)
    /\ imageFiles \in SUBSET (1..MaxSegments)
    /\ pauseGapDuration = 0
    /\ segmentsCreated = <<>>
    /\ concatLines = <<>>
    /\ ffmpegLog = <<>>
    /\ sampleRate = 24000
    /\ data = <<>>
    /\ NoAudio /\ NoCodec

SpecVideo ==
    InitVideo /\ [][CreateVideos \/ ProcessLanguage \/ SegmentStep \/ SegmentsDone
                    \/ ConcatStep \/ ConcatAll \/ ConcatDone]_vars

----------------------------------------------------------------------------
(* Properties of normalizeRangesToCount.                                   *)

\* the list `out` denotes
OutRanges == Deref(heap, out)

\* start <= end in every range, and no range starts before its predecessor ends
Ordered(list) ==
    /\ \A k \in 1..Len(list) : list[k].startSample <= list[k].endSample
    /\ \A k \in 2..Len(list) : list[k].startSample >= list[k - 1].endSample

\* start <= end in every range (the SampleRange invariant)
WellFormed(list) == \A k \in 1..Len(list) : list[k].startSample <= list[k].endSample

\* 1-based position of the first shortest / first longest range of a list
FirstShortest(list) ==
    CHOOSE m \in 1..Len(list) :
        /\ \A k \in 1..Len(list) : Length(list[m]) <= Length(list[k])
        /\ \A k \in 1..(m - 1) : Length(list[k]) # Length(list[m])

FirstLongest(list) ==
    CHOOSE m \in 1..Len(list) :
        /\ \A k \in 1..Len(list) : Length(list[m]) >= Length(list[k])
        /\ \A k \in 1..(m - 1) : Length(list[k]) # Length(list[m])

\* the list with the ranges at positions m and m+1 replaced by their union
Merged(list, m) ==
    [k \in 1..(Len(list) - 1) |->
        IF k < m THEN list[k]
        ELSE IF k = m THEN Range(list[m].startSample, list[m + 1].endSample)
        ELSE list[k + 1]]

\* the list with the range at position m replaced by its two halves
Halved(list, m) ==
    LET s == list[m].startSample
        e == list[m].endSample
        half == CHOOSE x \in Min(s, e)..Max(s, e) : 2 * x <= s + e /\ s + e < 2 * x + 2
    IN  [k \in 1..(Len(list) + 1) |->
            IF k < m THEN list[k]
            ELSE IF k = m THEN Range(s, half)
            ELSE IF k = m + 1 THEN Range(half, e)
            ELSE list[k - 1]]

\* C1: a call with a non-empty list and a count >= 0 does not fail and
\* returns exactly `count` ranges (none when count = 0).
C1_ExactCount ==
    Len(inputRanges) > 0 =>
        /\ pc # "error"
        /\ pc = "returned" => Len(Last(results)) = count

\* C1 witness: a non-empty list came back cut down to count by the final slice
C1_Witness ==
    /\ pc = "returned"
    /\ Len(inputRanges) > 0
    /\ Len(out) > count
    /\ Len(Last(results)) = count

\* C3: an ordered, non-overlapping input with start <= end everywhere gives
\* a result with start <= end everywhere in which no range starts before
\* the previous one ends.
C3_OrderPreserved ==
    (pc = "returned" /\ Ordered(entry)) => Ordered(Last(results))

\* C3 witness: an ordered list of three ranges returned after a merge into an
\* input object and a split
C3_Witness ==
    /\ pc = "returned"
    /\ Ordered(entry)
    /\ Len(entry) = 3
    /\ Deref(heap, inputRanges) # entry
    /\ Len(heap) > Len(entry)
    /\ Len(Last(results)) = 3

\* C4: two successive calls with the same list, count and rate return equal
\* lists.
C4_SameResultTwice ==
    Len(results) = 2 => results[1] = results[2]

\* C5: the call leaves the caller's list as it was: same length, and the
\* same startSample and endSample in every range.
C5_InputUnchanged ==
    pc \in {"premerge", "merge", "split", "return", "returned"} =>
        Deref(heap, inputRanges) = entry

\* C6: an iteration of the merge loop (list longer than count and longer
\* than 1) merges the first shortest range into its successor, or into its
\* predecessor when it is the last; and contiguous ranges of 0.3 s, 0.1 s,
\* 0.1 s with count 2 come back as 0.3 s, 0.2 s.
C6_MergeShortest ==
    /\ [][(pc = "merge" /\ Len(out) > count /\ Len(out) > 1) =>
            LET m == FirstShortest(OutRanges) IN
            OutRanges' = IF m < Len(out) THEN Merged(OutRanges, m)
                         ELSE Merged(OutRanges, m - 1)]_vars
    /\ [](( /\ pc = "returned"
            /\ sampleRate = 10
            /\ count = 2
            /\ entry = <<Range(0, 3), Range(3, 4), Range(4, 5)>> )
          => Last(results) = <<Range(0, 3), Range(3, 5)>>)

\* C6 witness: three ranges of 1.0 s, 0.3 s, 0.3 s (none tiny, a tie for the
\* shortest) and count 2: the merge loop has merged the second into the third
C6_Witness ==
    /\ pc = "returned"
    /\ sampleRate = 10
    /\ count = 2
    /\ entry = <<Range(0, 10), Range(10, 13), Range(13, 16)>>
    /\ Last(results) = <<Range(0, 10), Range(10, 16)>>

\* C7: an iteration of the split loop (list shorter than count, ranges with
\* start <= end) replaces the first longest range [s, e) by [s, mid) and
\* [mid, e), mid = floor((s + e) / 2); and ranges of 1.0 s, 3.0 s with
\* count 3 come back as 1.0 s, 1.5 s, 1.5 s.
C7_SplitLongest ==
    /\ [][(pc = "split" /\ Len(out) < count /\ Len(out) > 0 /\ WellFormed(OutRanges)) =>
            OutRanges' = Halved(OutRanges, FirstLongest(OutRanges))]_vars
    /\ [](( /\ pc = "returned"
            /\ sampleRate = 10
            /\ count = 3
            /\ entry = <<Range(0, 10), Range(10, 40)>> )
          => Last(results) = <<Range(0, 10), Range(10, 25), Range(25, 40)>>)

\* C7 witness: 1.0 s, 3.0 s with count 3 returned as 1.0 s, 1.5 s, 1.5 s
C7_Witness ==
    /\ pc = "returned"
    /\ sampleRate = 10
    /\ count = 3
    /\ entry = <<Range(0, 10), Range(10, 40)>>
    /\ Last(results) = <<Range(0, 10), Range(10, 25), Range(25, 40)>>

\* C8 as stated: when the input list's length equals count, neither the
\* merge loop nor the split loop is entered.
C8_NoIterations ==
    Len(inputRanges) = count =>
        /\ pc = "merge" => ~(Len(out) > count /\ Len(out) > 1)
        /\ pc = "split" => ~(Len(out) < count)

\* C8 amended: when the input list's length equals count, the merge loop
\* makes no iteration, and the split loop makes an iteration only if the
\* pre-merge removed a range, that is, only if some range other than the
\* last is shorter than 0.25 s.
C8_NoMergeSplitOnlyAfterPreMerge ==
    [][Len(inputRanges) = count =>
        /\ pc = "merge" => out' = out
        /\ (pc = "split" /\ out' # out) =>
              \E k \in 1..(Len(entry) - 1) : IsTiny(entry[k], sampleRate)]_vars

\* C8 witness: the list was as long as count, the pre-merge shortened it and
\* the split loop is about to iterate
C8_Witness ==
    /\ Len(inputRanges) = count
    /\ pc = "split"
    /\ Len(out) < count

----------------------------------------------------------------------------
(* Properties of splitAudioBySilence and of the audio path.                *)

\* the ranges splitAudioBySilence has just returned
SplitRanges == Deref(heap, inputRanges)

\* 0 and data.length around the boundaries (part_002:120)
Cuts == <<0>> \o boundaries \o <<Len(data)>>

\* 0-based indices of the frames of the buffer
FrameIndices ==
    {j \in 0..Len(data) :
        j * HopSize(sampleRate, options) + FrameSize(sampleRate, options) <= Len(data)}

\* the frame with 0-based index j is classified silent
SilentAt(j) ==
    IsSilentFrame(SumSquares(data, j * HopSize(sampleRate, options),
                             FrameSize(sampleRate, options)),
                  FrameSize(sampleRate, options))

\* the buffer is loud audio for a samples, then a stretch of s zero samples
\* holding at least minSilenceFrames whole frames, then loud audio, both loud
\* parts longer than 0.2 s; audio is loud where every frame that touches it
\* is classified not silent
LoudSilenceLoud(a, s) ==
    LET frameSize == FrameSize(sampleRate, options)
        hopSize == HopSize(sampleRate, options)
        inside == {j \in FrameIndices : j * hopSize >= a /\ j * hopSize + frameSize <= a + s}
    IN  /\ a + s < Len(data)
        /\ data[a] # 0 /\ data[a + s + 1] # 0
        /\ \A k \in (a + 1)..(a + s) : data[k] = 0
        /\ \A j \in FrameIndices \ inside : ~SilentAt(j)
        /\ Cardinality(inside) >= MinSilenceFrames(options)
        /\ a * 5 > sampleRate
        /\ (Len(data) - a - s) * 5 > sampleRate

\* C2 as stated: for a non-empty buffer and a sentence count N >= 1 the audio
\* path ends without error with exactly N clips, clip k being the encoded
\* samples of the k-th range, the ranges in temporal order.
C2_PipelineYieldsNClips ==
    (Len(data) > 0 /\ count >= 1) =>
        /\ pc # "error"
        /\ pc = "done" =>
            /\ Len(clips) = count
            /\ \A k \in 1..Len(clips) :
                 clips[k] = EncodeAudioBuffer(SliceAudioBuffer(data,
                     Last(results)[k].startSample, Last(results)[k].endSample))
            /\ \A k \in 2..Len(clips) :
                 Last(results)[k].startSample >= Last(results)[k - 1].startSample

\* C9: loud audio, a stretch of silence with at least minSilenceFrames
\* whole silent frames, loud audio, the loud parts longer than 0.2 s:
\* splitAudioBySilence returns two ranges, [0, b) and [b, length), with b
\* inside the silent stretch.
C9_TwoRangesAroundSilence ==
    pc = "call" =>
        \A a \in {x \in 1..(Len(data) - 1) : data[x] # 0 /\ data[x + 1] = 0} :
        \A s \in {x \in 1..(Len(data) - a - 1) : data[a + x] = 0 /\ data[a + x + 1] # 0} :
            LoudSilenceLoud(a, s) =>
                /\ Len(SplitRanges) = 2
                /\ SplitRanges[1].startSample = 0
                /\ SplitRanges[1].endSample = SplitRanges[2].startSample
                /\ SplitRanges[2].endSample = Len(data)
                /\ a <= SplitRanges[1].endSample
                /\ SplitRanges[1].endSample < a + s

\* C9 witness: 2 s of tone, 1 s of silence, 2 s of tone with 450 ms of
\* minimal silence came back as two ranges cut inside the silence
C9_Witness ==
    /\ pc = "call"
    /\ data = ToneSilenceTone
    /\ options.minSilenceMs = 450
    /\ LoudSilenceLoud(48, 24)
    /\ Len(SplitRanges) = 2
    /\ SplitRanges[1].endSample \in 48..71

\* C10: every returned range is longer than 0.2 * sampleRate samples and is
\* one candidate between two successive cuts, unchanged; every candidate of
\* that length is returned, and a candidate of at most 0.2 * sampleRate
\* samples is in no returned range's place.
C10_ShortCandidatesDropped ==
    pc = "call" =>
        /\ \A k \in 1..Len(SplitRanges) :
            /\ Length(SplitRanges[k]) * 5 > sampleRate
            /\ \E j \in 1..(Len(Cuts) - 1) : SplitRanges[k] = Range(Cuts[j], Cuts[j + 1])
        /\ \A j \in 1..(Len(Cuts) - 1) :
            (\E k \in 1..Len(SplitRanges) : SplitRanges[k] = Range(Cuts[j], Cuts[j + 1]))
                <=> (Cuts[j + 1] - Cuts[j]) * 5 > sampleRate
        /\ Len(SplitRanges) =
             Cardinality({j \in 1..(Len(Cuts) - 1) : (Cuts[j + 1] - Cuts[j]) * 5 > sampleRate})

\* C10 witness: a candidate of 1 to 4 samples was dropped between or beside
\* returned ranges
C10_Witness ==
    /\ pc = "call"
    /\ Len(SplitRanges) >= 1
    /\ \E j \in 1..(Len(Cuts) - 1) :
        /\ Cuts[j + 1] - Cuts[j] > 0
        /\ (Cuts[j + 1] - Cuts[j]) * 5 <= sampleRate
        /\ \A k \in 1..Len(SplitRanges) : SplitRanges[k] # Range(Cuts[j], Cuts[j + 1])

----------------------------------------------------------------------------
(* Properties of the boundary scan of splitAudioBySilence.                 *)

\* isSilence of the buffer; frame j (0-based) is Silence[j + 1]
Silence ==
    IsSilence(data, 0, FrameSize(sampleRate, options), HopSize(sampleRate, options))

\* the number of consecutive silent frames from frame k (0-based) on
RunLength(sil, k) ==
    Cardinality({j \in k..(Len(sil) - 1) : \A f \in k..j : sil[f + 1]})

\* the first frames (0-based) of the maximal runs of silent frames
RunStarts(sil) ==
    {k \in 0..(Len(sil) - 1) : sil[k + 1] /\ (k = 0 \/ ~sil[k])}

\* the first frames of the maximal runs of at least n silent frames
LongRuns(sil, n) == {k \in RunStarts(sil) : RunLength(sil, k) >= n}

\* the position among the boundaries of the cut of the long run starting at k
Rank(sil, n, k) == Cardinality({j \in LongRuns(sil, n) : j <= k})

\* C11 as stated: the boundary of a silence run that starts at frame k and
\* reaches minSilenceFrames frames is (k - floor(minSilenceFrames/2)) * hopSize.
C11_BoundaryFromRunStart ==
    pc = "call" =>
        LET sil == Silence
            n == MinSilenceFrames(options)
        IN  \A k \in LongRuns(sil, n) :
                /\ Rank(sil, n, k) <= Len(boundaries)
                /\ boundaries[Rank(sil, n, k)] = (k - (n \div 2)) * HopSize(sampleRate, options)

\* C11 amended: the boundary of a silence run that starts at frame k and
\* reaches minSilenceFrames frames is
\* (k + minSilenceFrames - 1 - floor(minSilenceFrames/2)) * hopSize.
C11_BoundaryFromThresholdFrame ==
    pc = "call" =>
        LET sil == Silence
            n == MinSilenceFrames(options)
        IN  \A k \in LongRuns(sil, n) :
                /\ Rank(sil, n, k) <= Len(boundaries)
                /\ boundaries[Rank(sil, n, k)] =
                     (k + n - 1 - (n \div 2)) * HopSize(sampleRate, options)

\* C11 witness: a run of at least 5 silent frames starting at frame 6 with
\* its cut at sample (6 + 4 - 2) * 2 = 16
C11_Witness ==
    /\ pc = "call"
    /\ MinSilenceFrames(options) = 5
    /\ HopSize(sampleRate, options) = 2
    /\ 6 \in LongRuns(Silence, 5)
    /\ \E b \in 1..Len(boundaries) : boundaries[b] = 16

\* C16: every returned range has 0 <= startSample <= endSample <=
\* buffer.length, and no range starts before the previous one ends.
C16_RangesInsideBuffer ==
    pc = "call" =>
        /\ \A k \in 1..Len(SplitRanges) :
            /\ 0 <= SplitRanges[k].startSample
            /\ SplitRanges[k].startSample <= SplitRanges[k].endSample
            /\ SplitRanges[k].endSample <= Len(data)
        /\ \A k \in 2..Len(SplitRanges) :
            SplitRanges[k].startSample >= SplitRanges[k - 1].endSample

\* C16 witness: two ranges returned, with a dropped candidate between them
C16_Witness ==
    /\ pc = "call"
    /\ Len(SplitRanges) >= 2
    /\ \E k \in 2..Len(SplitRanges) :
        SplitRanges[k].startSample > SplitRanges[k - 1].endSample

\* C19: when the run counter reaches minSilenceFrames at frame idx, the cut
\* is at sample (idx - floor(minSilenceFrames/2)) * hopSize, which lies
\* between the start sample of the run's first frame and that of frame idx.
C19_BoundaryInsideRun ==
    pc = "call" =>
        LET sil == Silence
            n == MinSilenceFrames(options)
            hopSize == HopSize(sampleRate, options)
        IN  /\ \A k \in LongRuns(sil, n) :
                LET idx == k + n - 1 IN
                /\ Rank(sil, n, k) <= Len(boundaries)
                /\ boundaries[Rank(sil, n, k)] = (idx - (n \div 2)) * hopSize
                /\ k * hopSize <= boundaries[Rank(sil, n, k)]
                /\ boundaries[Rank(sil, n, k)] <= idx * hopSize
            /\ \A b \in 1..Len(boundaries) :
                \E k \in LongRuns(sil, n) : Rank(sil, n, k) = b

\* C19 witness: a cut strictly inside its run (after the first frame's start
\* and before the start of the frame that completed the minimum)
C19_Witness ==
    /\ pc = "call"
    /\ \E k \in LongRuns(Silence, MinSilenceFrames(options)) :
        \E b \in 1..Len(boundaries) :
            /\ k * HopSize(sampleRate, options) < boundaries[b]
            /\ boundaries[b] <
                 (k + MinSilenceFrames(options) - 1) * HopSize(sampleRate, options)

\* C20: each maximal run of at least minSilenceFrames silent frames holds
\* exactly one cut, however long it is; a shorter run holds none; and there
\* is no other cut.
C20_OneBoundaryPerRun ==
    pc = "call" =>
        LET sil == Silence
            n == MinSilenceFrames(options)
            hopSize == HopSize(sampleRate, options)
            cutsIn(k) == {b \in 1..Len(boundaries) :
                            /\ k * hopSize <= boundaries[b]
                            /\ boundaries[b] <= (k + RunLength(sil, k) - 1) * hopSize}
        IN  /\ \A k \in RunStarts(sil) :
                Cardinality(cutsIn(k)) = IF RunLength(sil, k) >= n THEN 1 ELSE 0
            /\ Len(boundaries) = Cardinality(LongRuns(sil, n))

\* C20 witness: a run of more than twice the minimum with its one cut, and a
\* run shorter than the minimum
C20_Witness ==
    /\ pc = "call"
    /\ Len(boundaries) = 1
    /\ \E k \in RunStarts(Silence) :
        RunLength(Silence, k) > 2 * MinSilenceFrames(options)
    /\ \E k \in RunStarts(Silence) :
        RunLength(Silence, k) < MinSilenceFrames(options)

----------------------------------------------------------------------------
(* Properties of the PCM codec and of sliceAudioBuffer.                    *)

\* the samples of a buffer all lie in [-1, 1]
InUnitRange(channel) ==
    \A k \in 1..Len(channel) : -65536 <= channel[k] /\ channel[k] <= 65536

\* C12: encoding the buffer decoded from an even-length byte sequence gives
\* back the same bytes: every int16 value maps back to itself.
C12_BytesRoundTrip ==
    \A j \in 1..Len(trip) :
        (trip[j].kind = "bytes" /\ Len(trip[j].v) % 2 = 0 /\ j + 2 <= Len(trip))
            => trip[j + 2] = trip[j]

\* C13: decoding the encoding of a buffer with samples in [-1, 1] gives a
\* buffer of the same length whose samples are each within 1/32768 (2 units
\* of 1/65536) of the original.
C13_BufferRoundTrip ==
    \A j \in 1..Len(trip) :
        (trip[j].kind = "buffer" /\ InUnitRange(trip[j].v) /\ j + 2 <= Len(trip))
            => /\ trip[j + 2].kind = "buffer"
               /\ Len(trip[j + 2].v) = Len(trip[j].v)
               /\ \A k \in 1..Len(trip[j].v) :
                    /\ trip[j + 2].v[k] - trip[j].v[k] <= 2
                    /\ trip[j].v[k] - trip[j + 2].v[k] <= 2

\* C14: decodeAudioData ends in an error and returns no buffer when the byte
\* length is odd, and returns a buffer of byteLength / 2 samples when even.
C14_OddLengthFails ==
    \A j \in 1..(Len(trip) - 1) :
        trip[j].kind = "bytes" =>
            IF Len(trip[j].v) % 2 = 1
            THEN trip[j + 1].kind = "RangeError"
            ELSE /\ trip[j + 1].kind = "buffer"
                 /\ 2 * Len(trip[j + 1].v) = Len(trip[j].v)

\* C14 witness: three bytes were given and the call threw
C14_Witness ==
    /\ Len(trip) = 2
    /\ trip[1].kind = "bytes"
    /\ Len(trip[1].v) = 3
    /\ trip[2].kind = "RangeError"

\* C15: the slice has max(0, e - s) samples and the source's rate; sample i
\* is the source's sample s + i when that lies inside the source and 0
\* otherwise; every s and e, beyond the source or with e < s, gets a result.
C15_SliceContents ==
    /\ pc = "slice" => ENABLED SliceStep
    /\ pc = "sliced" =>
        LET r == sliced[1]
            s == sliceArgs.startSample
            e == sliceArgs.endSample
        IN  /\ r.sampleRate = sampleRate
            /\ r.length = IF e > s THEN e - s ELSE 0
            /\ Len(r.samples) = r.length
            /\ \A idx \in 0..(r.length - 1) :
                r.samples[idx + 1] =
                    IF 0 <= s + idx /\ s + idx < Len(data)
                    THEN data[s + idx + 1] ELSE 0

\* C15 witness: a slice from inside the source to beyond its end that starts
\* with a non-zero sample other than the source's first
C15_Witness ==
    /\ pc = "sliced"
    /\ sliceArgs.startSample = 1
    /\ sliceArgs.endSample = Len(data) + 2
    /\ Len(data) = 3
    /\ sliced[1].samples[1] # 0
    /\ sliced[1].samples[1] # data[1]
    /\ sliced[1].samples[4] = 0

\* C15 second case: an end before the start gives the empty buffer
C15_WitnessReversed ==
    /\ pc = "sliced"
    /\ sliceArgs.endSample < sliceArgs.startSample
    /\ sliced[1].length = 0

----------------------------------------------------------------------------
(* Properties of main's AUDIO_SPEED handling and of the concat list.       *)

\* every FFmpeg command run so far succeeded
AllCreated == \A k \in 1..Len(ffmpegLog) : ffmpegLog[k].ok

\* C17: with PAUSE_GAP_DURATION > 0 and every segment and pause clip
\* created, the list written for n segments has 2n-1 lines: the segments in
\* ascending order with one pause between each pair and none after the
\* last; with duration 0 it is the n segments in ascending order.
C17_ConcatList ==
    (pc = "written" /\ AllCreated) =>
        LET n == Len(segmentsCreated) IN
        /\ \A j \in 2..n : segmentsCreated[j - 1] < segmentsCreated[j]
        /\ IF pauseGapDuration > 0
           THEN /\ Len(concatLines) = 2 * n - 1
                /\ \A j \in 1..n : concatLines[2 * j - 1] = SegmentLine(segmentsCreated[j])
                /\ \A j \in 1..(n - 1) : concatLines[2 * j].kind = "pause"
           ELSE concatLines = [j \in 1..n |-> SegmentLine(segmentsCreated[j])]

\* C17 witness: three segments and the two pauses between them
C17_Witness ==
    /\ pc = "written"
    /\ AllCreated
    /\ pauseGapDuration > 0
    /\ Len(segmentsCreated) = 3
    /\ Len(concatLines) = 5

\* the AUDIO_SPEED text is missing, not a number, or outside [0.5, 2.0]
BadAudioSpeed ==
    \/ ~env.AUDIO_SPEED.set
    \/ env.AUDIO_SPEED.text \in
         {<<>>, <<"a", "b", "c">>, <<"N", "a", "N">>, <<"-", "1">>, <<"0">>,
          <<"0", ".", "4">>, <<"0", ".", "4", "9", "9">>, <<"2", ".", "0", "0", "1">>,
          <<"2", ".", "5">>, <<"1", "0">>,
          <<"I", "n", "f", "i", "n", "i", "t", "y">>}

\* C18: adjustAudioSpeed is only called with a speed in [0.5, 2.0] other
\* than 1.0 and never raises its out-of-range error; a missing, non-numeric
\* or out-of-range AUDIO_SPEED becomes 1.0 and leads to no call.
C18_SpeedCallsInRange ==
    /\ \A k \in 1..Len(speedCalls) :
        /\ 500 <= speedCalls[k].speed
        /\ speedCalls[k].speed <= 2000
        /\ speedCalls[k].speed # 1000
        /\ speedCalls[k].outcome # "out of range"
    /\ (pc # "main" /\ BadAudioSpeed) => (audioSpeed = 1000 /\ speedCalls = <<>>)

\* C18 witness: AUDIO_SPEED=2.5 and both audio tracks generated without a
\* call of adjustAudioSpeed
C18_Witness ==
    /\ pc = "generated"
    /\ env.AUDIO_SPEED = Set(<<"2", ".", "5">>)
    /\ generateSpanish
    /\ audioSpeed = 1000
    /\ speedCalls = <<>>

\* C18 second case: AUDIO_SPEED=0.8 and two calls with 0.8
C18_WitnessAdjusted ==
    /\ pc = "generated"
    /\ Len(speedCalls) = 2
    /\ speedCalls[1].speed = 800

----------------------------------------------------------------------------
(* Further properties of normalizeRangesToCount.                           *)

\* shorter than 0.25 s at the rate of the call
Short(r) == (r.endSample - r.startSample) * 4 < sampleRate

\* the tiny-range loop is left in this step
LeavesPreMerge == pc = "premerge" /\ pc' = "merge"

\* the first .. last positions of a maximal chain of two or more tiny ranges
IsTinyChain(list, first, last) ==
    /\ first < last
    /\ \A k \in first..last : Short(list[k])
    /\ first = 1 \/ ~Short(list[first - 1])
    /\ last = Len(list) \/ ~Short(list[last + 1])

\* outl is list with each range having absorbed its followers while the
\* span up to the follower before was shorter than 0.25 s
AbsorbedUntilLong(list, outl) ==
    \E cut \in [0..Len(outl) -> 0..Len(list)] :
        /\ cut[0] = 0
        /\ cut[Len(outl)] = Len(list)
        /\ \A k \in 1..Len(outl) :
            /\ cut[k - 1] < cut[k]
            /\ outl[k] = Range(list[cut[k - 1] + 1].startSample, list[cut[k]].endSample)
            /\ \A b \in (cut[k - 1] + 1)..(cut[k] - 1) :
                Short(Range(list[cut[k - 1] + 1].startSample, list[b].endSample))

\* C21 as stated: the tiny-range loop runs for every count; when it is left
\* every range but the last lasts >= 0.25 s, and every chain of consecutive
\* tiny ranges of the input lies inside one range.
C21_ChainsBecomeOneRange ==
    [][(LeavesPreMerge /\ Ordered(entry)) =>
        /\ \A k \in 1..(Len(out) - 1) : ~Short(OutRanges[k])
        /\ \A first \in 1..Len(entry), last \in 1..Len(entry) :
            IsTinyChain(entry, first, last) =>
                \E k \in 1..Len(out) :
                    /\ OutRanges[k].startSample <= entry[first].startSample
                    /\ entry[last].endSample <= OutRanges[k].endSample]_vars

\* C21 amended: the tiny-range loop runs for every count; when it is left
\* every range but the last lasts >= 0.25 s, each range having absorbed the
\* ranges after it until it lasted 0.25 s (a chain of tiny ranges can end up
\* as more than one range).
C21_TinyRangesAbsorbed ==
    [][LeavesPreMerge =>
        /\ \A k \in 1..(Len(out) - 1) : ~Short(OutRanges[k])
        /\ AbsorbedUntilLong(entry, OutRanges)]_vars

\* C21 witness: the list is no longer than count, the loop is about to be
\* left, and it has turned a chain of three tiny ranges into two ranges
C21_Witness ==
    /\ pc = "premerge"
    /\ ~(i < Len(out) - 1)
    /\ Len(entry) = 3
    /\ Len(entry) <= count
    /\ IsTinyChain(entry, 1, 3)
    /\ Len(out) = 2

\* C22: with an empty list and count > 0 no range is made and the call ends
\* in an error, neither returning nor running on; with an empty list and
\* count = 0 it returns the empty list.
C22_EmptyListFails ==
    inputRanges = <<>> =>
        /\ count > 0 =>
            /\ heap = <<>>
            /\ pc \notin {"return", "returned"}
            /\ pc = "split" => ENABLED (SplitStep /\ pc' = "error")
        /\ count = 0 =>
            /\ pc # "error"
            /\ pc = "returned" => Last(results) = <<>>

\* C22 witness: the call on an empty list with count 2 has ended in the error
C22_Witness ==
    /\ inputRanges = <<>>
    /\ count = 2
    /\ pc = "error"

\* C22 second case: the empty list came back for count = 0
C22_WitnessZero ==
    /\ inputRanges = <<>>
    /\ count = 0
    /\ pc = "returned"

\* C23: a call on a non-empty list returns; a tiny-range step removes a
\* range or advances the index, a merge step shortens the list by one and a
\* split step lengthens it by one, whatever the length of the longest range.
C23_Terminates ==
    /\ [][inputRanges # <<>> =>
            /\ (pc = "premerge" /\ pc' = "premerge") =>
                  \/ Len(out') = Len(out) - 1 /\ i' = i
                  \/ Len(out') = Len(out) /\ i' = i + 1
            /\ (pc = "merge" /\ pc' = "merge") => Len(out') = Len(out) - 1
            /\ (pc = "split" /\ pc' = "split") => Len(out') = Len(out) + 1]_vars
    /\ (pc = "call" /\ inputRanges # <<>>) ~> (pc = "returned")

\* C23 witness: a single range of one sample was split twice and the call
\* returned three ranges
C23_Witness ==
    /\ pc = "returned"
    /\ Len(entry) = 1
    /\ Length(entry[1]) = 1
    /\ count = 3
    /\ Len(Last(results)) = 3

\* C28: for a non-empty ordered list and count >= 1 the first returned range
\* starts where the first input range starts and the last returned range
\* ends where the last input range ends.
C28_SpanPreserved ==
    (pc = "returned" /\ Len(entry) > 0 /\ Ordered(entry) /\ count >= 1) =>
        /\ Len(Last(results)) > 0
        /\ Last(results)[1].startSample = entry[1].startSample
        /\ Last(Last(results)).endSample = Last(entry).endSample

\* C28 witness: three ordered ranges with gaps came back as three ranges
\* after a merge and a split that moved the end of the first
C28_Witness ==
    /\ pc = "returned"
    /\ Len(entry) = 3
    /\ Ordered(entry)
    /\ entry[2].startSample > entry[1].endSample
    /\ count = 3
    /\ Len(Last(results)) = 3
    /\ Last(results)[1].endSample # entry[1].endSample

RECURSIVE TotalSamples(_)
\* the number of samples in the ranges of a list
TotalSamples(list) ==
    IF list = <<>> THEN 0 ELSE Length(list[1]) + TotalSamples(Tail(list))

\* C29: if the input ranges are ordered, each of positive duration, and
\* hold at least count >= 1 samples in all, every returned range has
\* positive duration.
C29_PositiveDurations ==
    (/\ pc = "returned"
     /\ Ordered(entry)
     /\ \A k \in 1..Len(entry) : Length(entry[k]) > 0
     /\ count >= 1
     /\ TotalSamples(entry) >= count) =>
        \A k \in 1..Len(Last(results)) : Length(Last(results)[k]) > 0

\* C29 witness: three ranges of one sample each came back as three ranges
C29_Witness ==
    /\ pc = "returned"
    /\ Len(entry) = 3
    /\ \A k \in 1..3 : Length(entry[k]) = 1
    /\ Ordered(entry)
    /\ count = 3
    /\ Len(Last(results)) = 3

----------------------------------------------------------------------------
(* The ranges that reach sliceAudioBuffer in generateContent.              *)

\* the range lies in a buffer of len samples
InBuffer(r, len) ==
    /\ 0 <= r.startSample
    /\ r.startSample <= r.endSample
    /\ r.endSample <= len

\* C27: every range normalizeRangesToCount returns for the output of
\* splitAudioBySilence lies in the buffer, 0 <= startSample <= endSample <=
\* buffer.length, and each clip is the encoding of exactly the samples of its
\* range, none of them a padded zero.
C27_RangesInsideBuffer ==
    /\ pc \in {"returned", "done"} =>
          \A k \in 1..Len(Last(results)) : InBuffer(Last(results)[k], Len(data))
    /\ pc = "done" =>
          /\ Len(clips) = Len(Last(results))
          /\ \A k \in 1..Len(clips) :
                clips[k] = EncodeAudioBuffer(
                    SubSeq(data, Last(results)[k].startSample + 1,
                                 Last(results)[k].endSample))

\* C27 witness: the clips were cut from three returned ranges, one more than
\* splitAudioBySilence found, the last ending at the end of the buffer
C27_Witness ==
    /\ pc = "done"
    /\ Len(entry) = 2
    /\ Len(clips) = 3
    /\ Last(Last(results)).endSample = Len(data)
    /\ Len(boundaries) > 0

----------------------------------------------------------------------------
(* The image of a pause clip, part_004:283-323.                            *)

\* the successful FFmpeg command that made the pause clip of line `line`
PauseCommands(line) ==
    {k \in 1..Len(ffmpegLog) :
        /\ ffmpegLog[k].cmd = "pause"
        /\ ffmpegLog[k].n = line.n
        /\ ffmpegLog[k].ok}

\* C30: with PAUSE_GAP_DURATION > 0 each pause clip of the concat list follows
\* a story segment and was built from the image of that segment, also when
\* numbered segments were skipped.
C30_PauseFromPrecedingImage ==
    pauseGapDuration > 0 =>
        \A p \in 1..Len(concatLines) :
            concatLines[p].kind = "pause" =>
                /\ p > 1
                /\ concatLines[p - 1].kind = "segment"
                /\ PauseCommands(concatLines[p]) # {}
                /\ \A k \in PauseCommands(concatLines[p]) :
                      ffmpegLog[k].image = concatLines[p - 1].n

\* without a skipped segment the pause after segment n is built from image_n
C30_HoldsWithoutSkips ==
    (pauseGapDuration > 0 /\ audioFiles \subseteq imageFiles
       /\ audioFiles = 1..FindMaxSegmentNumber(audioFiles)) =>
        \A p \in 1..Len(concatLines) :
            concatLines[p].kind = "pause" =>
                \A k \in PauseCommands(concatLines[p]) :
                    ffmpegLog[k].image = concatLines[p - 1].n

----------------------------------------------------------------------------
(* The loudness profile of splitAudioBySilence, part_002:88-101.           *)

\* part_002:88-89 with a frame or a hop of no or negative length
Degenerate(opt) == opt.hopMs <= 0 \/ opt.frameMs <= 0

\* C24: with hopMs <= 0 or frameMs <= 0, frameSize and hopSize are at least 1
\* sample, every turn of the frame loop moves `start` forward, and
\* splitAudioBySilence returns a list of ranges of the buffer.
C24_DegenerateTerminates ==
    /\ [](Degenerate(options) =>
            /\ FrameSize(sampleRate, options) >= 1
            /\ HopSize(sampleRate, options) >= 1
            /\ pc = "ranges" => \A k \in 1..Len(heap) : InBuffer(heap[k], Len(data)))
    /\ [][(Degenerate(options) /\ pc = "profile" /\ pc' = "profile") =>
            /\ frameStart' > frameStart
            /\ frameStart < Len(data)]_vars
    /\ (Degenerate(options) /\ pc = "profile") ~> (pc = "ranges")

\* C24 witness: with hopMs = 0 and frameMs = 0 a buffer of five samples gave
\* five frames and came back as one range
C24_Witness ==
    /\ pc = "ranges"
    /\ options.hopMs = 0
    /\ options.frameMs = 0
    /\ Len(data) = 5
    /\ Len(framesRms) = 5
    /\ Len(heap) = 1

\* C25: the profile has floor((L - frameSize) / hopSize) + 1 frames when
\* L >= frameSize and none otherwise; frame j (from 0) covers the samples
\* j * hopSize .. j * hopSize + frameSize - 1, all of them below L; the
\* frames are those of IsSilence.
C25_FrameCount ==
    LET L == Len(data)
        frameSize == FrameSize(sampleRate, options)
        hopSize == HopSize(sampleRate, options)
    IN  pc \in {"profile", "ranges"} =>
        /\ \A j \in 1..Len(framesRms) :
              /\ framesRms[j].start = (j - 1) * hopSize
              /\ framesRms[j].start + frameSize <= L
              /\ framesRms[j].sum # NaNSum
              /\ framesRms[j].sum = SumSquares(data, framesRms[j].start, frameSize)
        /\ pc = "ranges" =>
              /\ Len(framesRms) = IF L >= frameSize
                                  THEN (L - frameSize) \div hopSize + 1 ELSE 0
              /\ [f \in 1..Len(framesRms) |->
                     FrameIsSilent(framesRms[f].sum, frameSize)]
                 = IsSilence(data, 0, frameSize, hopSize)

\* C25 witness: five samples in frames of two with hops of two gave two
\* frames, the fifth sample being in none
C25_Witness ==
    /\ pc = "ranges"
    /\ Len(data) = 5
    /\ FrameSize(sampleRate, options) = 2
    /\ HopSize(sampleRate, options) = 2
    /\ Len(framesRms) = 2

\* C26: for a buffer of no samples splitAudioBySilence computes no frame and
\* returns no range.
C26_EmptyBuffer ==
    (data = <<>> /\ pc \in {"profile", "ranges"}) =>
        /\ framesRms = <<>>
        /\ pc = "ranges" => (boundaries = <<>> /\ heap = <<>> /\ inputRanges = <<>>)

\* C26 witness: splitAudioBySilence has returned for an empty buffer
C26_Witness ==
    /\ data = <<>>
    /\ pc = "ranges"
    /\ options.hopMs > 0
    /\ options.frameMs > 0

====
